---- MODULE Spec2Model ----
(***************************************************************************)
(* Model of the French Tarot card crate (src/src/lib.rs, src/src/errors.rs) *)
(*                                                                         *)
(* The crate is a set of pure constructors and queries.  The state machine *)
(* is a caller that builds one value with a public constructor (or with a  *)
(* public enum variant), queries it any number of times, and drops it.     *)
(* Points are f32 multiples of 0.5 in the source; they are kept here in    *)
(* half-point units (twice the value).                                     *)
(***************************************************************************)
EXTENDS Integers, FiniteSets, Sequences, TLC

VARIABLES
    overflow_checks,  \* build profile: TRUE = arithmetic overflow panics (debug), FALSE = it wraps (release)
    ctor,             \* the constructor call whose result the caller holds
    held,             \* what that call returned
    ret               \* the last query and what it returned

vars == <<overflow_checks, ctor, held, ret>>

----------------------------------------------------------------------------
(* Generic values *)

(* Result<T, E> *)
Ok(x) == [type |-> "Ok", ok |-> x]

Err(e) == [type |-> "Err", err |-> e]

(* Option<T> *)
Some(x) == [some |-> TRUE, val |-> x]

None == [some |-> FALSE]

(* The outcome of a call: it returns a value or it panics. *)
Returned(x) == [panicked |-> FALSE, out |-> x]

Panicked == [panicked |-> TRUE]

(* The caller holds no value / has made no query. *)
NoCtor == [op |-> "none"]

Nothing == [type |-> "Nothing"]

NoRet == [op |-> "none"]

----------------------------------------------------------------------------
(* Value types *)

U8 == 0..255

Color == {"Clubs", "Spades", "Diamonds", "Hearts"}

Face == {"King", "Queen", "Knight", "Jack"}

ThemeTrump == [variant |-> "Trump"]

ThemeColor(c) == [variant |-> "Color", c |-> c]

Theme == {ThemeTrump} \cup {ThemeColor(c) : c \in Color}

----------------------------------------------------------------------------
(* errors.rs *)

TarotValueError_new(value) == [value |-> value]

PipValueError_new(value) == [type |-> "PipValueError", inner |-> TarotValueError_new(value)]

TrumpValueError_new(value) == [type |-> "TrumpValueError", inner |-> TarotValueError_new(value)]

----------------------------------------------------------------------------
(* impl Theme *)

Theme_is_color(self) == self.variant = "Color"

Theme_is_trump(self) == ~Theme_is_color(self)

Theme_color(self) ==
    IF self.variant = "Trump" THEN None ELSE Some(self.c)

(* Variant: a Trump theme yields a default suit instead of panicking. *)
Theme_color_checked_default(self) ==
    IF self.variant = "Trump" THEN Returned("Clubs") ELSE Returned(self.c)

Theme_color_checked(self) ==
    IF self.variant = "Trump" THEN Panicked ELSE Returned(self.c)

----------------------------------------------------------------------------
(* impl ColorCard *)

ColorCard_color(self) == self.color

ColorCard_face(self) == self.face

ColorCard_number(self) == self.number

ColorCard_is_face(self) == self.face.some

ColorCard_is_pip(self) == ~ColorCard_is_face(self)

(* Variant: a pip card yields a default face instead of panicking. *)
ColorCard_face_checked_default(self) ==
    IF self.face.some THEN Returned(self.face.val) ELSE Returned("Jack")

ColorCard_face_checked(self) ==
    IF self.face.some THEN Returned(self.face.val) ELSE Panicked

(* Variant: the Jack's ordinal collides with the highest pip. *)
FaceNumber_jack10(face) ==
    CASE face = "King"   -> 14
      [] face = "Queen"  -> 13
      [] face = "Knight" -> 12
      [] face = "Jack"   -> 10

FaceNumber(face) ==
    CASE face = "King"   -> 14
      [] face = "Queen"  -> 13
      [] face = "Knight" -> 12
      [] face = "Jack"   -> 11

new_face(face, color) ==
    [type |-> "ColorCard", color |-> color, face |-> Some(face), number |-> FaceNumber(face)]

(* Variant: the upper bound of the pip range is off by one. *)
new_pip_upto11(number, color) ==
    IF number > 0 /\ number < 12
    THEN Ok([type |-> "ColorCard", color |-> color, face |-> None, number |-> number])
    ELSE Err(PipValueError_new(number))

new_pip(number, color) ==
    IF number > 0 /\ number < 11
    THEN Ok([type |-> "ColorCard", color |-> color, face |-> None, number |-> number])
    ELSE Err(PipValueError_new(number))

----------------------------------------------------------------------------
(* impl TrumpCard *)

TrumpNumber(n) == [type |-> "TrumpCard", variant |-> "Number", n |-> n]

TrumpFool == [type |-> "TrumpCard", variant |-> "Fool"]

(* Variant: the lower bound of the trump range is not checked. *)
new_trump_card_nolower(value) ==
    IF value < 22
    THEN Ok(TrumpNumber(value))
    ELSE Err(TrumpValueError_new(value))

new_trump_card(value) ==
    IF value > 0 /\ value < 22
    THEN Ok(TrumpNumber(value))
    ELSE Err(TrumpValueError_new(value))

little_one == TrumpNumber(1)

the_world == TrumpNumber(21)

is_fool(self) == self.variant = "Fool"

(* Variant: the Fool is not counted among the oudlers. *)
is_oudler_nofool(self) ==
    IF self.variant = "Fool" THEN FALSE ELSE self.n = 1 \/ self.n = 21

is_oudler(self) ==
    IF self.variant = "Fool" THEN TRUE ELSE self.n = 1 \/ self.n = 21

TrumpCard_number(self) ==
    IF self.variant = "Number" THEN Some(self.n) ELSE None

----------------------------------------------------------------------------
(* impl Card for ColorCard *)

ColorCard_points(self) ==
    IF ColorCard_is_face(self)
    THEN CASE ColorCard_face(self).val = "King"   -> 9
           [] ColorCard_face(self).val = "Queen"  -> 7
           [] ColorCard_face(self).val = "Knight" -> 5
           [] ColorCard_face(self).val = "Jack"   -> 3
    ELSE 1

(* Variant: the suit of the card is not compared with the theme's. *)
ColorCard_rank_anysuit(self, theme) ==
    IF ~Theme_is_color(theme)
    THEN Returned(0)
    ELSE Returned(self.number)

(* `&&` is short-circuit: color_checked() runs only when is_color() holds, *)
(* and its panic, if any, is the panic of rank.                            *)
ColorCard_rank(self, theme) ==
    IF ~Theme_is_color(theme)
    THEN Returned(0)
    ELSE IF Theme_color_checked(theme).panicked
         THEN Panicked
         ELSE IF self.color = Theme_color_checked(theme).out
              THEN Returned(self.number)
              ELSE Returned(0)

----------------------------------------------------------------------------
(* impl Card for TrumpCard *)

TrumpCard_points(self) ==
    IF is_oudler(self) THEN 9 ELSE 1

(* u8 addition: with overflow checks the build panics on overflow, *)
(* without them the sum wraps modulo 2^8.                          *)
AddU8(a, b, checks) ==
    IF a + b > 255
    THEN IF checks THEN Panicked ELSE Returned((a + b) % 256)
    ELSE Returned(a + b)

(* Variant: the theme is ignored, a trump always ranks its number. *)
TrumpCard_rank_notheme(self, theme, checks) ==
    IF self.variant = "Fool"
    THEN Returned(0)
    ELSE Returned(self.n)

(* Variant: under a color theme trumps start at the King's rank. *)
TrumpCard_rank_base13(self, theme, checks) ==
    IF self.variant = "Fool"
    THEN Returned(0)
    ELSE IF Theme_is_color(theme)
         THEN AddU8(13, self.n, checks)
         ELSE Returned(self.n)

TrumpCard_rank(self, theme, checks) ==
    IF self.variant = "Fool"
    THEN Returned(0)
    ELSE IF Theme_is_color(theme)
         THEN AddU8(14, self.n, checks)
         ELSE Returned(self.n)

----------------------------------------------------------------------------
(* The caller *)

(* The card the caller can query: the returned card, or the payload of Ok. *)
Holding == IF held.type = "Ok" THEN held.ok ELSE held

HoldsColorCard == Holding.type = "ColorCard"

HoldsTrumpCard == Holding.type = "TrumpCard"

Init ==
    /\ overflow_checks \in BOOLEAN
    /\ ctor = NoCtor
    /\ held = Nothing
    /\ ret = NoRet

Construct(c, v) ==
    /\ ctor = NoCtor
    /\ ctor' = c
    /\ held' = v
    /\ ret' = NoRet
    /\ UNCHANGED overflow_checks

NewFace ==
    \E face \in Face, color \in Color :
        Construct([op |-> "new_face", color |-> color, face |-> face], new_face(face, color))

NewPip ==
    \E number \in U8, color \in Color :
        Construct([op |-> "new_pip", color |-> color, number |-> number], new_pip(number, color))

NewTrumpCard ==
    \E value \in U8 :
        Construct([op |-> "new_trump_card", value |-> value], new_trump_card(value))

LittleOne == Construct([op |-> "little_one"], little_one)

TheWorld == Construct([op |-> "the_world"], the_world)

(* The variants of the public enum TrumpCard, used directly. *)
VariantNumber ==
    \E n \in U8 : Construct([op |-> "TrumpCard::Number", n |-> n], TrumpNumber(n))

VariantFool == Construct([op |-> "TrumpCard::Fool"], TrumpFool)

Drop ==
    /\ ctor # NoCtor
    /\ ctor' = NoCtor
    /\ held' = Nothing
    /\ ret' = NoRet
    /\ UNCHANGED overflow_checks

Query(op, outcome) ==
    /\ ret' = [op |-> op, res |-> outcome]
    /\ UNCHANGED <<overflow_checks, ctor, held>>

QueryTheme(op, theme, outcome) ==
    /\ ret' = [op |-> op, theme |-> theme, res |-> outcome]
    /\ UNCHANGED <<overflow_checks, ctor, held>>

ThemeIsColor ==
    \E theme \in Theme : QueryTheme("Theme::is_color", theme, Returned(Theme_is_color(theme)))

ThemeIsTrump ==
    \E theme \in Theme : QueryTheme("Theme::is_trump", theme, Returned(Theme_is_trump(theme)))

ThemeColorOf ==
    \E theme \in Theme : QueryTheme("Theme::color", theme, Returned(Theme_color(theme)))

ThemeColorChecked ==
    \E theme \in Theme : QueryTheme("Theme::color_checked", theme, Theme_color_checked(theme))

ColorCardColor ==
    HoldsColorCard /\ Query("ColorCard::color", Returned(ColorCard_color(Holding)))

ColorCardNumber ==
    HoldsColorCard /\ Query("ColorCard::number", Returned(ColorCard_number(Holding)))

ColorCardIsFace ==
    HoldsColorCard /\ Query("ColorCard::is_face", Returned(ColorCard_is_face(Holding)))

ColorCardIsPip ==
    HoldsColorCard /\ Query("ColorCard::is_pip", Returned(ColorCard_is_pip(Holding)))

ColorCardFace ==
    HoldsColorCard /\ Query("ColorCard::face", Returned(ColorCard_face(Holding)))

ColorCardFaceChecked ==
    HoldsColorCard /\ Query("ColorCard::face_checked", ColorCard_face_checked(Holding))

ColorCardPoints ==
    HoldsColorCard /\ Query("ColorCard::points", Returned(ColorCard_points(Holding)))

ColorCardRank ==
    /\ HoldsColorCard
    /\ \E theme \in Theme : QueryTheme("ColorCard::rank", theme, ColorCard_rank(Holding, theme))

TrumpCardIsFool ==
    HoldsTrumpCard /\ Query("TrumpCard::is_fool", Returned(is_fool(Holding)))

TrumpCardIsOudler ==
    HoldsTrumpCard /\ Query("TrumpCard::is_oudler", Returned(is_oudler(Holding)))

TrumpCardNumber ==
    HoldsTrumpCard /\ Query("TrumpCard::number", Returned(TrumpCard_number(Holding)))

TrumpCardPoints ==
    HoldsTrumpCard /\ Query("TrumpCard::points", Returned(TrumpCard_points(Holding)))

TrumpCardRank ==
    /\ HoldsTrumpCard
    /\ \E theme \in Theme :
           QueryTheme("TrumpCard::rank", theme, TrumpCard_rank(Holding, theme, overflow_checks))

Next ==
    \/ NewFace
    \/ NewPip
    \/ NewTrumpCard
    \/ LittleOne
    \/ TheWorld
    \/ VariantNumber
    \/ VariantFool
    \/ Drop
    \/ ThemeIsColor
    \/ ThemeIsTrump
    \/ ThemeColorOf
    \/ ThemeColorChecked
    \/ ColorCardColor
    \/ ColorCardNumber
    \/ ColorCardIsFace
    \/ ColorCardIsPip
    \/ ColorCardFace
    \/ ColorCardFaceChecked
    \/ ColorCardPoints
    \/ ColorCardRank
    \/ TrumpCardIsFool
    \/ TrumpCardIsOudler
    \/ TrumpCardNumber
    \/ TrumpCardPoints
    \/ TrumpCardRank

Spec == Init /\ [][Next]_vars

----------------------------------------------------------------------------
(* Properties *)

RetIs(op) == ret.op = op

(* C1: new_pip(n, c) succeeds if and only if 1 <= n <= 10.  On success the  *)
(* card is a pip (is_pip true, is_face false, face absent) whose number is  *)
(* n and whose color is c; on failure the result is a PipValueError that    *)
(* carries exactly n and holds no card.                                     *)
C1_NewPipContract ==
    ctor.op = "new_pip" =>
        /\ (held.type = "Ok") <=> (1 <= ctor.number /\ ctor.number <= 10)
        /\ held.type \in {"Ok", "Err"}
        /\ held.type = "Ok" =>
            /\ held.ok.type = "ColorCard"
            /\ RetIs("ColorCard::is_pip") => ret.res = Returned(TRUE)
            /\ RetIs("ColorCard::is_face") => ret.res = Returned(FALSE)
            /\ RetIs("ColorCard::face") => ret.res = Returned(None)
            /\ RetIs("ColorCard::number") => ret.res = Returned(ctor.number)
            /\ RetIs("ColorCard::color") => ret.res = Returned(ctor.color)
        /\ held.type = "Err" =>
            /\ DOMAIN held = {"type", "err"}
            /\ held.err.type = "PipValueError"
            /\ held.err.inner.value = ctor.number
            /\ ~HoldsColorCard

C1_Witness ==
    /\ ctor.op = "new_pip"
    /\ ctor.number = 10
    /\ RetIs("ColorCard::is_pip")

C1_WitnessFailure ==
    /\ ctor.op = "new_pip"
    /\ ctor.number = 11
    /\ held.type = "Err"

(* C2: new_trump_card(v) succeeds if and only if 1 <= v <= 21.  On success  *)
(* the result is Number(v) (number() is v, is_fool() is false); on failure  *)
(* it is a TrumpValueError carrying exactly v.  little_one() is Number(1)   *)
(* and the_world() is Number(21).                                           *)
C2_NewTrumpCardContract ==
    /\ ctor.op = "new_trump_card" =>
        /\ (held.type = "Ok") <=> (1 <= ctor.value /\ ctor.value <= 21)
        /\ held.type \in {"Ok", "Err"}
        /\ held.type = "Ok" =>
            /\ held.ok.type = "TrumpCard"
            /\ held.ok.variant = "Number"
            /\ held.ok.n = ctor.value
            /\ RetIs("TrumpCard::number") => ret.res = Returned(Some(ctor.value))
            /\ RetIs("TrumpCard::is_fool") => ret.res = Returned(FALSE)
        /\ held.type = "Err" =>
            /\ DOMAIN held = {"type", "err"}
            /\ held.err.type = "TrumpValueError"
            /\ held.err.inner.value = ctor.value
            /\ ~HoldsTrumpCard
    /\ ctor.op = "little_one" =>
        /\ held.type = "TrumpCard" /\ held.variant = "Number" /\ held.n = 1
        /\ RetIs("TrumpCard::number") => ret.res = Returned(Some(1))
    /\ ctor.op = "the_world" =>
        /\ held.type = "TrumpCard" /\ held.variant = "Number" /\ held.n = 21
        /\ RetIs("TrumpCard::number") => ret.res = Returned(Some(21))

C2_Witness ==
    /\ ctor.op = "new_trump_card"
    /\ ctor.value = 21
    /\ RetIs("TrumpCard::number")

C2_WitnessFailure ==
    /\ ctor.op = "new_trump_card"
    /\ ctor.value = 22
    /\ held.type = "Err"

(* C3: for every ColorCard built by new_face or new_pip and every theme,    *)
(* rank(theme) returns without failing: the card's number (1..14) when the  *)
(* theme is Color(c) with c the card's suit, and 0 otherwise (other suit,   *)
(* or Trump).                                                               *)
C3_ColorCardRank ==
    (ctor.op \in {"new_face", "new_pip"} /\ RetIs("ColorCard::rank")) =>
        /\ ~ret.res.panicked
        /\ IF ret.theme.variant = "Color" /\ ret.theme.c = ctor.color
           THEN /\ ret.res.out = Holding.number
                /\ ret.res.out \in 1..14
                /\ ctor.op = "new_pip" => ret.res.out = ctor.number
                /\ ctor.op = "new_face" => ret.res.out = FaceNumber(ctor.face)
           ELSE ret.res.out = 0

C3_Witness ==
    /\ ctor.op = "new_pip"
    /\ RetIs("ColorCard::rank")
    /\ ret.theme = ThemeColor(ctor.color)
    /\ ret.res = Returned(7)

C3_WitnessTrump ==
    /\ ctor.op = "new_face"
    /\ RetIs("ColorCard::rank")
    /\ ret.theme = ThemeTrump

(* C4: the Fool's rank is 0 whatever the theme; for Number(n), 1 <= n <= 21,*)
(* rank(Trump) is n and rank(Color(c)) is 14 + n for every suit c.          *)
C4_TrumpCardRank ==
    (HoldsTrumpCard /\ RetIs("TrumpCard::rank")) =>
        /\ Holding.variant = "Fool" => ret.res = Returned(0)
        /\ (Holding.variant = "Number" /\ Holding.n \in 1..21) =>
            /\ ret.theme.variant = "Trump" => ret.res = Returned(Holding.n)
            /\ ret.theme.variant = "Color" =>
                /\ ret.res = Returned(14 + Holding.n)
                /\ ret.res.out \in 15..35

C4_Witness ==
    /\ HoldsTrumpCard
    /\ Holding.variant = "Number"
    /\ Holding.n = 21
    /\ RetIs("TrumpCard::rank")
    /\ ret.theme.variant = "Color"
    /\ ret.res = Returned(35)

(* C5: points() follows the French Tarot table, in half-point units: King 9,*)
(* Queen 7, Knight 5, Jack 3, every pip 1; a trump scores 9 exactly when    *)
(* is_oudler() holds and 1 otherwise, and is_oudler() is true exactly for   *)
(* Fool, Number(1) and Number(21).  points() never fails and does not       *)
(* depend on the suit.                                                      *)
IsOudlerCard(card) ==
    card.variant = "Fool" \/ (card.variant = "Number" /\ card.n \in {1, 21})

C5_WitnessOudler ==
    /\ ctor.op = "the_world"
    /\ RetIs("TrumpCard::points")
    /\ ret.res = Returned(9)

(* C6: under every color theme, every numbered trump Number(n), 1..21,      *)
(* ranks strictly higher than every ColorCard of every suit: suited ranks   *)
(* are at most 14 and numbered-trump ranks at least 15.  Within the theme's *)
(* suit every face card ranks strictly above every pip card.                *)
PipCards == {new_pip(n, c).ok : n \in 1..10, c \in Color}

FaceCards == {new_face(f, c) : f \in Face, c \in Color}

SuitedCards == FaceCards \cup PipCards

NumberedTrumps == {new_trump_card(n).ok : n \in 1..21}

C6_TrumpOutranksSuited ==
    /\ (HoldsColorCard /\ RetIs("ColorCard::rank") /\ ret.theme.variant = "Color") =>
        /\ ~ret.res.panicked
        /\ ret.res.out <= 14
        /\ \A t \in NumberedTrumps :
               LET r == TrumpCard_rank(t, ret.theme, overflow_checks)
               IN  ~r.panicked /\ r.out > ret.res.out
        /\ (ColorCard_is_face(Holding) /\ Holding.color = ret.theme.c) =>
               \A p \in PipCards :
                   p.color = ret.theme.c =>
                       LET r == ColorCard_rank(p, ret.theme)
                       IN  ~r.panicked /\ r.out < ret.res.out
    /\ (HoldsTrumpCard /\ Holding \in NumberedTrumps
          /\ RetIs("TrumpCard::rank") /\ ret.theme.variant = "Color") =>
        /\ ~ret.res.panicked
        /\ ret.res.out >= 15
        /\ \A s \in SuitedCards :
               LET r == ColorCard_rank(s, ret.theme)
               IN  ~r.panicked /\ r.out < ret.res.out

C6_Witness ==
    /\ ctor.op = "new_face"
    /\ ctor.face = "Jack"
    /\ RetIs("ColorCard::rank")
    /\ ret.theme = ThemeColor(ctor.color)
    /\ ret.res = Returned(11)

C6_WitnessTrump ==
    /\ ctor.op = "little_one"
    /\ RetIs("TrumpCard::rank")
    /\ ret.theme.variant = "Color"
    /\ ret.res = Returned(15)

(* C7: over the 78-card deck and for every theme, two distinct cards have   *)
(* the same rank only when that rank is 0: a card of the deck with a        *)
(* non-zero rank shares it with no other card of the deck.                  *)
DeckTrumps == NumberedTrumps \cup {TrumpFool}

InDeck(card) == card \in SuitedCards \/ card \in DeckTrumps

(* Card::rank, dispatched on the implementing type. *)
CardRank(card, theme, checks) ==
    IF card.type = "ColorCard"
    THEN ColorCard_rank(card, theme)
    ELSE TrumpCard_rank(card, theme, checks)

C7_NonZeroRankUnique ==
    /\ Cardinality(SuitedCards) + Cardinality(DeckTrumps) = 78
    /\ ((HoldsColorCard \/ HoldsTrumpCard) /\ InDeck(Holding)
          /\ ret.op \in {"ColorCard::rank", "TrumpCard::rank"}) =>
        /\ ~ret.res.panicked
        /\ ret.res.out # 0 =>
            /\ \A d \in SuitedCards :
                   d # Holding => CardRank(d, ret.theme, overflow_checks) # ret.res
            /\ \A d \in DeckTrumps :
                   d # Holding => CardRank(d, ret.theme, overflow_checks) # ret.res

C7_Witness ==
    /\ ctor.op = "new_face"
    /\ ctor.face = "King"
    /\ RetIs("ColorCard::rank")
    /\ ret.theme = ThemeColor(ctor.color)
    /\ ret.res = Returned(14)

(* C8: every ColorCard from new_face or new_pip satisfies the face/number   *)
(* invariant and reads back its arguments: new_face(f, c) always succeeds   *)
(* with face() = f, color() = c and number() the ordinal of f (King 14,     *)
(* Queen 13, Knight 12, Jack 11); a face is present iff is_face(); is_face  *)
(* and is_pip are never both true nor both false; a face card's number is   *)
(* in 11..14 and a pip's in 1..10; face_checked() returns the face exactly  *)
(* when is_face() holds and fails when is_pip() holds.                      *)
C8_ColorCardInvariant ==
    /\ ctor.op = "new_face" =>
        /\ held.type = "ColorCard"
        /\ RetIs("ColorCard::face") => ret.res = Returned(Some(ctor.face))
        /\ RetIs("ColorCard::color") => ret.res = Returned(ctor.color)
        /\ RetIs("ColorCard::number") =>
            ret.res = Returned(CASE ctor.face = "King"   -> 14
                                 [] ctor.face = "Queen"  -> 13
                                 [] ctor.face = "Knight" -> 12
                                 [] ctor.face = "Jack"   -> 11)
        /\ RetIs("ColorCard::is_face") => ret.res = Returned(TRUE)
        /\ RetIs("ColorCard::is_pip") => ret.res = Returned(FALSE)
    /\ (ctor.op \in {"new_face", "new_pip"} /\ HoldsColorCard) =>
        /\ ColorCard_face(Holding).some <=> ColorCard_is_face(Holding)
        /\ ColorCard_is_face(Holding) # ColorCard_is_pip(Holding)
        /\ ColorCard_is_face(Holding) <=> (ctor.op = "new_face")
        /\ ColorCard_is_face(Holding) => ColorCard_number(Holding) \in 11..14
        /\ ColorCard_is_pip(Holding) => ColorCard_number(Holding) \in 1..10
        /\ RetIs("ColorCard::face_checked") =>
            /\ ret.res.panicked <=> ColorCard_is_pip(Holding)
            /\ ColorCard_is_face(Holding) => ret.res = Returned(ctor.face)

C8_Witness ==
    /\ ctor.op = "new_face"
    /\ ctor.face = "Queen"
    /\ RetIs("ColorCard::face_checked")
    /\ ret.res = Returned("Queen")

C8_WitnessPip ==
    /\ ctor.op = "new_pip"
    /\ HoldsColorCard
    /\ RetIs("ColorCard::face_checked")
    /\ ret.res.panicked

(* C9: every TrumpCard a caller of the public interface can hold is Fool or *)
(* Number(n) with 1 <= n <= 21, however it was obtained (new_trump_card,    *)
(* little_one, the_world, or the public variants Number and Fool); hence    *)
(* rank(theme) is at most 35 and 14 + n stays inside the u8 range.          *)
C9_TrumpCardInRange ==
    HoldsTrumpCard =>
        /\ Holding.variant = "Fool" \/ Holding.n \in 1..21
        /\ RetIs("TrumpCard::rank") =>
            /\ ~ret.res.panicked
            /\ ret.res.out <= 35
            /\ (Holding.variant = "Number" /\ ret.theme.variant = "Color") =>
                   ret.res.out = 14 + Holding.n

(* C10: for every Theme exactly one of is_color() and is_trump() is true;   *)
(* color() never fails and returns Some(c) for Color(c) and None for Trump; *)
(* color_checked() returns c for Color(c) and panics for Trump.             *)
C10_ThemeAccessors ==
    /\ ret.op \in {"Theme::is_color", "Theme::is_trump", "Theme::color", "Theme::color_checked"} =>
        Theme_is_color(ret.theme) # Theme_is_trump(ret.theme)
    /\ RetIs("Theme::is_color") => ret.res = Returned(ret.theme.variant = "Color")
    /\ RetIs("Theme::is_trump") => ret.res = Returned(ret.theme.variant = "Trump")
    /\ RetIs("Theme::color") =>
        /\ ~ret.res.panicked
        /\ ret.res.out.some <=> Theme_is_color(ret.theme)
        /\ ret.theme.variant = "Color" => ret.res.out = Some(ret.theme.c)
        /\ ret.theme.variant = "Trump" => ret.res.out = None
    /\ RetIs("Theme::color_checked") =>
        /\ ret.res.panicked <=> (ret.theme.variant = "Trump")
        /\ ret.theme.variant = "Color" => ret.res = Returned(ret.theme.c)

C10_Witness ==
    /\ RetIs("Theme::color_checked")
    /\ ret.theme = ThemeTrump
    /\ ret.res.panicked

C10_WitnessColor ==
    /\ RetIs("Theme::color")
    /\ ret.theme = ThemeColor("Hearts")
    /\ ret.res = Returned(Some("Hearts"))

====
